---------------------------- MODULE Spec2Model ----------------------------
(***************************************************************************)
(* Marble game core: jump state machine (Jump, JumpSystem), physics        *)
(* integrator (PhysicsSystem) and collision resolver (CollisionSystem),    *)
(* driven by World.update in system registration order.                    *)
(*                                                                         *)
(* Numbers are fixed point: one unit of length, speed or time is Scale     *)
(* model units, so 0.015 is 150 and 0.2 s is 2000.  Products are           *)
(* truncated toward zero.                                                  *)
(***************************************************************************)
EXTENDS Integers, Sequences, FiniteSets, TLC

VARIABLES
    entities,   \* World.entities: id -> component values (ids in creation order)
    systems,    \* World.systems: the registered passes, in registration order
    pc,         \* 0 between frames, else index in systems of the next pass to run
    dt,         \* deltaTime of the frame in progress
    keys,       \* InputManager.keys: the keys currently held down
    tick,       \* frames started so far
    keyEvents,  \* keyboard events and direct requestJump calls handled so far
    hist        \* what the last pass saw and did (observation only)

vars == <<entities, systems, pc, dt, keys, tick, keyEvents, hist>>

---------------------------------------------------------------------------
(* Bounds of the model *)

MaxTicks == 14
MaxKeyEvents == 2

---------------------------------------------------------------------------
(* Fixed-point arithmetic *)

Scale == 10000

Abs(a) == IF a < 0 THEN -a ELSE a
Sign(a) == IF a > 0 THEN 1 ELSE IF a < 0 THEN -1 ELSE 0
Min(a, b) == IF a < b THEN a ELSE b
Max(a, b) == IF a > b THEN a ELSE b

\* a / b truncated toward zero (b > 0)
TDiv(a, b) == IF a >= 0 THEN a \div b ELSE -((-a) \div b)

\* fixed-point product of two fixed-point numbers
Mul(a, b) == TDiv(a * b, Scale)

RECURSIVE SqrtSearch(_, _, _)
SqrtSearch(n, lo, hi) ==
    IF lo >= hi THEN lo
    ELSE LET mid == (lo + hi + 1) \div 2
         IN  IF mid * mid <= n THEN SqrtSearch(n, mid, hi)
             ELSE SqrtSearch(n, lo, mid - 1)

\* floor of the square root of n, for 0 <= n < 2^31
ISqrt(n) == SqrtSearch(n, 0, 46340)

---------------------------------------------------------------------------
(* THREE.Vector3 *)

Vec(x, y, z) == [x |-> x, y |-> y, z |-> z]
Zero3 == Vec(0, 0, 0)
VSub(a, b) == Vec(a.x - b.x, a.y - b.y, a.z - b.z)
VAdd(a, b) == Vec(a.x + b.x, a.y + b.y, a.z + b.z)
\* v * s for a fixed-point scalar s
VScale(v, s) == Vec(Mul(v.x, s), Mul(v.y, s), Mul(v.z, s))
\* fixed-point dot product
VDot(a, b) == TDiv(a.x * b.x + a.y * b.y + a.z * b.z, Scale)
\* Euclidean length of a vector of model units
VLength(v) == ISqrt(v.x * v.x + v.y * v.y + v.z * v.z)
\* the factor that brings a short vector to at least 0.2 units per largest
\* component, so that its integer length keeps three digits or more
Magnify(v) ==
    LET m == Max(Abs(v.x), Max(Abs(v.y), Abs(v.z)))
    IN  IF m = 0 \/ m >= 2000 THEN 1
        ELSE IF m >= 200 THEN 10
        ELSE IF m >= 20 THEN 100
        ELSE 1000

\* Vector3.normalize: v / |v|, and (0,0,0) stays (0,0,0)
VNormalize(v) ==
    LET w == Vec(v.x * Magnify(v), v.y * Magnify(v), v.z * Magnify(v))
        len == VLength(w)
    IN  IF len = 0 THEN Zero3
        ELSE Vec(TDiv(w.x * Scale, len), TDiv(w.y * Scale, len), TDiv(w.z * Scale, len))

---------------------------------------------------------------------------
(* Constants (utils/Constants) *)

GRAVITY == 150
MARBLE_SPEED == 50
JUMP_POWER == 4000
AIR_CONTROL_FACTOR == 3000
GROUND_FRICTION == 9700
AIR_FRICTION == 9900
BOUNCE_COEFFICIENT == 3000
MARBLE_RADIUS == 8000
PLATFORM_SIZE == 1000000

\* Jump.jumpCooldownTime, 0.2 s
JumpCooldownTime == 2000
\* processJumping: upward nudge at launch, 0.05
JumpLaunchNudge == 500
\* checkBoundaryCollisions: ground snap tolerance 0.1, bounce threshold 0.05,
\* respawn below y = -20
GroundSnapEpsilon == 1000
BounceVelocityThreshold == 500
RespawnY == 200000
\* resolveCollision: a normal with y > 0.1 is floor-like
FloorNormalY == 1000
\* OBJECTS.RING_RADIUS and OBJECTS.RING_THICKNESS
RING_RADIUS == 50000
RING_THICKNESS == 10000
\* Math.PI / 2, the x rotation createTorusObstacle gives a ring by default
HalfPi == 15708

---------------------------------------------------------------------------
(* Components, as their constructors build them *)

\* new Transform(position): rotation (0,0,0), previousPosition = position
Transform(position) ==
    [position |-> position, previousPosition |-> position, rotation |-> Zero3]

\* new Physics(mass, gravity)
Physics(mass, gravity) ==
    [velocity |-> Zero3, mass |-> mass, gravity |-> gravity,
     friction |-> GROUND_FRICTION, airFriction |-> AIR_FRICTION,
     bounceCoefficient |-> BOUNCE_COEFFICIENT,
     isOnGround |-> FALSE, isStatic |-> FALSE]

\* new Collider(type, params): isTrigger is always false after construction
Collider(type, radius, width, height, depth) ==
    [type |-> type, radius |-> radius, width |-> width, height |-> height,
     depth |-> depth, isTrigger |-> FALSE]

SphereCollider(radius) == Collider("sphere", radius, 0, 0, 0)
BoxCollider(width, height, depth) == Collider("box", 0, width, height, depth)

\* new Collider('torus', { radius, tube, ... })
TorusCollider(radius, tube) ==
    [type |-> "torus", radius |-> radius, tube |-> tube, width |-> 0,
     height |-> 0, depth |-> 0, isTrigger |-> FALSE]

\* new Surface(friction): bounciness defaults to BOUNCE_COEFFICIENT, not a ramp
Surface(friction) ==
    [friction |-> friction, bounciness |-> BOUNCE_COEFFICIENT,
     isJumpable |-> TRUE, isRamp |-> FALSE, rampSin |-> 0, slideFactor |-> Scale]

\* new Jump(jumpPower): Grounded, no request, no cooldown
Jump(jumpPower) ==
    [jumpPower |-> jumpPower, isJumping |-> FALSE, isFalling |-> FALSE,
     isOnSurface |-> TRUE, jumpRequested |-> FALSE, canJump |-> TRUE,
     jumpCooldown |-> 0, jumpCooldownTime |-> JumpCooldownTime]

\* new PlayerControl(speed)
PlayerControl(speed) ==
    [speed |-> speed, airControlFactor |-> AIR_CONTROL_FACTOR,
     moveDirection |-> [x |-> 0, z |-> 0]]

\* An entity: the set of component classes it has, and the value of each
\* (a component the entity lacks keeps its constructor default and is never read).
Entity(has, transform, physics, collider, surface, jump) ==
    [has |-> has, transform |-> transform, physics |-> physics,
     collider |-> collider, surface |-> surface, jump |-> jump,
     control |-> PlayerControl(MARBLE_SPEED)]

Has(e, c) == c \in e.has

---------------------------------------------------------------------------
(* Jump component *)

\* requestJump without the test of the cooldown
RequestJumpDuringCooldown(j) ==
    IF j.canJump /\ j.isOnSurface /\ ~j.isJumping
    THEN [j EXCEPT !.jumpRequested = TRUE]
    ELSE j

\* Jump.requestJump
RequestJump(j) ==
    IF j.canJump /\ j.isOnSurface /\ ~j.isJumping /\ j.jumpCooldown <= 0
    THEN [j EXCEPT !.jumpRequested = TRUE]
    ELSE j

\* executeJumpIfRequested without the test of jumpRequested
ExecuteJumpUnrequested(j) ==
    IF j.isOnSurface /\ j.jumpCooldown <= 0
    THEN [jump |-> [j EXCEPT !.isJumping = TRUE, !.isOnSurface = FALSE,
                             !.jumpRequested = FALSE,
                             !.jumpCooldown = j.jumpCooldownTime],
          executed |-> TRUE]
    ELSE [jump |-> j, executed |-> FALSE]

\* executeJumpIfRequested that leaves isOnSurface set
ExecuteJumpKeepsSurface(j) ==
    IF j.jumpRequested /\ j.isOnSurface /\ j.jumpCooldown <= 0
    THEN [jump |-> [j EXCEPT !.isJumping = TRUE, !.jumpRequested = FALSE,
                             !.jumpCooldown = j.jumpCooldownTime],
          executed |-> TRUE]
    ELSE [jump |-> j, executed |-> FALSE]

\* executeJumpIfRequested that does not start the cooldown
ExecuteJumpNoCooldown(j) ==
    IF j.jumpRequested /\ j.isOnSurface /\ j.jumpCooldown <= 0
    THEN [jump |-> [j EXCEPT !.isJumping = TRUE, !.isOnSurface = FALSE,
                             !.jumpRequested = FALSE],
          executed |-> TRUE]
    ELSE [jump |-> j, executed |-> FALSE]

\* Jump.executeJumpIfRequested: the jump after the call, and the value returned
ExecuteJumpIfRequested(j) ==
    IF j.jumpRequested /\ j.isOnSurface /\ j.jumpCooldown <= 0
    THEN [jump |-> [j EXCEPT !.isJumping = TRUE, !.isOnSurface = FALSE,
                             !.jumpRequested = FALSE,
                             !.jumpCooldown = j.jumpCooldownTime],
          executed |-> TRUE]
    ELSE [jump |-> j, executed |-> FALSE]

\* Jump.updateCooldown
UpdateCooldown(j, deltaTime) ==
    IF j.jumpCooldown > 0
    THEN [j EXCEPT !.jumpCooldown = Max(0, j.jumpCooldown - deltaTime)]
    ELSE j

---------------------------------------------------------------------------
(* JumpSystem.update, for one entity with Transform, Physics and Jump *)

\* landing that clears the flags and keeps velocity.y
JumpLandingKeepsVelocity(e) ==
    IF (e.jump.isJumping \/ e.jump.isFalling) /\ e.jump.isOnSurface
    THEN [e EXCEPT !.jump.isJumping = FALSE, !.jump.isFalling = FALSE]
    ELSE e

\* landing: (isJumping || isFalling) && isOnSurface
JumpLanding(e) ==
    IF (e.jump.isJumping \/ e.jump.isFalling) /\ e.jump.isOnSurface
    THEN [e EXCEPT !.jump.isJumping = FALSE, !.jump.isFalling = FALSE,
                   !.physics.velocity.y = 0]
    ELSE e

\* apex: isJumping && velocity.y < 0
JumpApex(e) ==
    IF e.jump.isJumping /\ e.physics.velocity.y < 0
    THEN [e EXCEPT !.jump.isJumping = FALSE, !.jump.isFalling = TRUE]
    ELSE e

\* walk-off detection that only fires while the object moves down
JumpWalkOffWhenSinking(e) ==
    IF ~e.jump.isOnSurface /\ ~e.jump.isJumping /\ ~e.jump.isFalling
       /\ e.physics.velocity.y < 0
    THEN [e EXCEPT !.jump.isFalling = TRUE]
    ELSE e

\* left a surface without jumping
JumpWalkOff(e) ==
    IF ~e.jump.isOnSurface /\ ~e.jump.isJumping /\ ~e.jump.isFalling
    THEN [e EXCEPT !.jump.isFalling = TRUE]
    ELSE e

JumpSystemEntity(e) == JumpWalkOff(JumpApex(JumpLanding(e)))

---------------------------------------------------------------------------
(* PhysicsSystem.update, for one entity with Transform and Physics *)

\* processPlayerMovement with the full speed in the air as well
ProcessPlayerMovementFullAirControl(e) ==
    [e EXCEPT !.physics.velocity.x = @ + Mul(e.control.moveDirection.x, e.control.speed),
              !.physics.velocity.z = @ + Mul(e.control.moveDirection.z, e.control.speed)]

\* PhysicsSystem.processPlayerMovement
ProcessPlayerMovement(e) ==
    LET speed == IF e.physics.isOnGround THEN e.control.speed
                 ELSE Mul(e.control.speed, e.control.airControlFactor)
    IN  [e EXCEPT !.physics.velocity.x = @ + Mul(e.control.moveDirection.x, speed),
                  !.physics.velocity.z = @ + Mul(e.control.moveDirection.z, speed)]

\* the launch of processJumping: cooldown update, then executeJumpIfRequested
JumpLaunch(e, deltaTime) ==
    LET r == ExecuteJumpIfRequested(UpdateCooldown(e.jump, deltaTime))
    IN  IF r.executed
        THEN [e EXCEPT !.jump = r.jump,
                       !.physics.velocity.y = r.jump.jumpPower,
                       !.transform.position.y = @ + JumpLaunchNudge]
        ELSE [e EXCEPT !.jump = r.jump]

\* did processJumping launch a jump in this call
Launches(e, deltaTime) ==
    /\ Has(e, "Jump")
    /\ ~e.physics.isStatic
    /\ ExecuteJumpIfRequested(UpdateCooldown(e.jump, deltaTime)).executed

\* gravity of processJumping: applied while not on a surface
JumpGravity(e) ==
    IF ~e.jump.isOnSurface
    THEN [e EXCEPT !.physics.velocity.y = @ - e.physics.gravity]
    ELSE e

\* the apex of processJumping without the reset of isJumping
PhysicsApexKeepsJumping(e) ==
    IF e.jump.isJumping /\ e.physics.velocity.y < 0
    THEN [e EXCEPT !.jump.isFalling = TRUE]
    ELSE e

\* the apex of processJumping detected one gravity step late
PhysicsApexLate(e) ==
    IF e.jump.isJumping /\ e.physics.velocity.y < -e.physics.gravity
    THEN [e EXCEPT !.jump.isJumping = FALSE, !.jump.isFalling = TRUE]
    ELSE e

\* apex of processJumping: isJumping && velocity.y < 0
PhysicsApex(e) ==
    IF e.jump.isJumping /\ e.physics.velocity.y < 0
    THEN [e EXCEPT !.jump.isJumping = FALSE, !.jump.isFalling = TRUE]
    ELSE e

\* PhysicsSystem.processJumping
ProcessJumping(e, deltaTime) == PhysicsApex(JumpGravity(JumpLaunch(e, deltaTime)))

\* gravity with a terminal velocity of five times the gravity
PlainGravityCapped(e) ==
    IF ~e.physics.isOnGround
    THEN [e EXCEPT !.physics.velocity.y = Max(@ - e.physics.gravity,
                                              -5 * e.physics.gravity)]
    ELSE e

\* gravity of an entity without a Jump component
PlainGravity(e) ==
    IF ~e.physics.isOnGround
    THEN [e EXCEPT !.physics.velocity.y = @ - e.physics.gravity]
    ELSE e

\* position += velocity scaled by the frame time relative to a 16 ms frame
ApplyVelocityPerSecond(e) ==
    [e EXCEPT !.transform.position =
        VAdd(e.transform.position,
             Vec(TDiv(e.physics.velocity.x * dt, 160),
                 TDiv(e.physics.velocity.y * dt, 160),
                 TDiv(e.physics.velocity.z * dt, 160)))]

\* position += velocity
ApplyVelocity(e) ==
    [e EXCEPT !.transform.position = VAdd(e.transform.position, e.physics.velocity)]

\* friction that divides the velocity by the factor
ApplyFrictionInverted(e) ==
    LET f == IF e.physics.isOnGround THEN e.physics.friction ELSE e.physics.airFriction
    IN  [e EXCEPT !.physics.velocity.x = TDiv(@ * Scale, f),
                  !.physics.velocity.z = TDiv(@ * Scale, f)]

\* friction on x and z: ground friction when isOnGround, else air friction
ApplyFriction(e) ==
    LET f == IF e.physics.isOnGround THEN e.physics.friction ELSE e.physics.airFriction
    IN  [e EXCEPT !.physics.velocity.x = Mul(@, f), !.physics.velocity.z = Mul(@, f)]

\* Transform.savePreviousPosition
SavePreviousPosition(e) ==
    [e EXCEPT !.transform.previousPosition = e.transform.position]

\* the body of the loop of PhysicsSystem.update
PhysicsEntity(e, deltaTime) ==
    IF e.physics.isStatic THEN e
    ELSE LET e1 == SavePreviousPosition(e)
             e2 == IF Has(e1, "PlayerControl") THEN ProcessPlayerMovement(e1) ELSE e1
             e3 == IF Has(e2, "Jump") THEN ProcessJumping(e2, deltaTime)
                   ELSE PlainGravity(e2)
         IN  ApplyFriction(ApplyVelocity(e3))

---------------------------------------------------------------------------
(* CollisionSystem: narrow phase *)

\* CollisionResult
NoCollision == [collided |-> FALSE, normal |-> Zero3, penetration |-> 0]

\* Math.max(-half, Math.min(half, v)) replaced by the nearer face of the box
ClampToFace(v, lo, hi) == IF v < 0 THEN lo ELSE hi

Clamp(v, lo, hi) == Max(lo, Min(hi, v))

\* the normal of checkSphereBoxCollision when the sphere centre is inside the box
BoxInsideNormal(local, halfWidth, halfHeight, halfDepth) ==
    LET dx == halfWidth - Abs(local.x)
        dy == halfHeight - Abs(local.y)
        dz == halfDepth - Abs(local.z)
    IN  IF dx < dy /\ dx < dz THEN Vec(Sign(local.x) * Scale, 0, 0)
        ELSE IF dy < dx /\ dy < dz THEN Vec(0, Sign(local.y) * Scale, 0)
        ELSE Vec(0, 0, Sign(local.z) * Scale)

\* CollisionSystem.checkSphereBoxCollision, for a box with rotation (0,0,0).
\* A difference of sphereRadius or more on one axis already puts the closest
\* point at that distance or more, so the length is only computed below it.
CheckSphereBoxCollision(spherePos, sphereRadius, boxPos, boxWidth, boxHeight, boxDepth) ==
    LET local == VSub(spherePos, boxPos)
        halfWidth == boxWidth \div 2
        halfHeight == boxHeight \div 2
        halfDepth == boxDepth \div 2
        closest == Vec(Clamp(local.x, -halfWidth, halfWidth),
                       Clamp(local.y, -halfHeight, halfHeight),
                       Clamp(local.z, -halfDepth, halfDepth))
        diff == VSub(local, closest)
    IN  IF Abs(diff.x) >= sphereRadius \/ Abs(diff.y) >= sphereRadius
           \/ Abs(diff.z) >= sphereRadius
        THEN NoCollision
        ELSE LET distance == VLength(diff)
             IN  IF distance < sphereRadius
                 THEN [collided |-> TRUE,
                       normal |-> IF distance > 0 THEN VNormalize(diff)
                                  ELSE BoxInsideNormal(local, halfWidth, halfHeight, halfDepth),
                       penetration |-> sphereRadius - distance]
                 ELSE NoCollision

\* CollisionSystem.checkSphereSphereCollision
CheckSphereSphereCollision(pos1, radius1, pos2, radius2) ==
    LET radiusSum == radius1 + radius2
        diff == VSub(pos1, pos2)
    IN  IF Abs(diff.x) >= radiusSum \/ Abs(diff.y) >= radiusSum \/ Abs(diff.z) >= radiusSum
        THEN NoCollision
        ELSE LET distance == VLength(diff)
             IN  IF distance < radiusSum
                 THEN [collided |-> TRUE,
                       normal |-> IF distance > 0 THEN VNormalize(diff)
                                  ELSE Vec(0, Scale, 0),
                       penetration |-> radiusSum - distance]
                 ELSE NoCollision

\* Vector2.length, exact on either axis; the squares of larger components are
\* taken at a quarter of the resolution to stay within 32 bits
V2Length(x, y) ==
    IF x = 0 THEN Abs(y)
    ELSE IF y = 0 THEN Abs(x)
    ELSE IF Abs(x) < 30000 /\ Abs(y) < 30000 THEN ISqrt(x * x + y * y)
    ELSE 4 * ISqrt((x \div 4) * (x \div 4) + (y \div 4) * (y \div 4))

\* applyMatrix4(invRotMatrix) for the two rotations a ring is given: none, and a
\* quarter turn about x, which takes world (x, y, z) to local (x, z, -y)
ApplyInverseRotation(v, rot) ==
    IF rot.x = HalfPi THEN Vec(v.x, v.z, -v.y) ELSE v

\* applyMatrix4(rotMatrix), back to world space
ApplyRotation(v, rot) ==
    IF rot.x = HalfPi THEN Vec(v.x, -v.z, v.y) ELSE v

\* Math.cos(Math.PI / 2) is 6.1e-17 in double precision, not 0, so the inverse
\* of the quarter turn takes (0, 0, z) to local (0, z, 6.1e-17 * z): where the
\* exact local x and z both vanish the local z keeps the sign of the world z.
\* The identity matrix of a ring without rotation leaves no such term.
RotationResidue(v, rot) ==
    IF rot.x = HalfPi /\ v.x = 0 /\ v.y = 0 THEN Sign(v.z) ELSE 0

\* sphereXZ normalized; (0, 0) stays (0, 0) unless the rotation left a residue
UnitXZ(lx, lz, length, residue) ==
    IF length > 0
    THEN [x |-> TDiv(lx * Scale, length), y |-> TDiv(lz * Scale, length)]
    ELSE [x |-> 0, y |-> residue * Scale]

\* the closest point of the centre circle of the tube, in the local xz plane
ClosestPointOnCircle(lx, lz, residue, torusRadius) ==
    LET unit == UnitXZ(lx, lz, V2Length(lx, lz), residue)
    IN  [x |-> Mul(unit.x, torusRadius), y |-> Mul(unit.y, torusRadius)]

\* closestPoint.add(directionFromCircle.normalize().multiplyScalar(torusTube)),
\* skipped when directionFromCircle has length 0
AdjustForTube(onCircle, dx, dz, length, torusTube) ==
    IF length > 0
    THEN [x |-> onCircle.x + Mul(TDiv(dx * Scale, length), torusTube),
          y |-> onCircle.y + Mul(TDiv(dz * Scale, length), torusTube)]
    ELSE onCircle

\* the closest point of the torus surface; its y is the y of the sphere, so it is
\* a point of the local xz plane and every distance to it is a distance there
ClosestPoint(lx, lz, onCircle, torusTube) ==
    AdjustForTube(onCircle, lx - onCircle.x, lz - onCircle.y,
                  V2Length(lx - onCircle.x, lz - onCircle.y), torusTube)

\* the collision check at the end of checkSphereTorusCollision
SphereTorusContact(dx, dz, distance, sphereRadius, torusRot) ==
    IF distance < sphereRadius
    THEN [collided |-> TRUE,
          normal |-> ApplyRotation(
              IF distance > 0
              THEN Vec(TDiv(dx * Scale, distance), 0, TDiv(dz * Scale, distance))
              ELSE Vec(0, Scale, 0), torusRot),
          penetration |-> sphereRadius - distance]
    ELSE NoCollision

\* CollisionSystem.checkSphereTorusCollision
CheckSphereTorusCollision(spherePos, sphereRadius, torusPos, torusRot, torusRadius, torusTube) ==
    LET offset == VSub(spherePos, torusPos)
        localSpherePos == ApplyInverseRotation(offset, torusRot)
        closestPoint ==
            ClosestPoint(localSpherePos.x, localSpherePos.z,
                ClosestPointOnCircle(localSpherePos.x, localSpherePos.z,
                    RotationResidue(offset, torusRot), torusRadius),
                torusTube)
    IN  IF V2Length(localSpherePos.x, localSpherePos.z)
               < torusRadius - torusTube - sphereRadius
           /\ Abs(localSpherePos.y) < torusTube + sphereRadius
        THEN NoCollision
        ELSE SphereTorusContact(localSpherePos.x - closestPoint.x,
                                localSpherePos.z - closestPoint.y,
                                V2Length(localSpherePos.x - closestPoint.x,
                                         localSpherePos.z - closestPoint.y),
                                sphereRadius, torusRot)

\* CollisionSystem.checkCollision: dispatch on the two collider types
CheckCollision(transformA, colliderA, transformB, colliderB) ==
    IF colliderA.type = "sphere" /\ colliderB.type = "box"
    THEN CheckSphereBoxCollision(transformA.position, colliderA.radius,
             transformB.position, colliderB.width, colliderB.height, colliderB.depth)
    ELSE IF colliderA.type = "box" /\ colliderB.type = "sphere"
    THEN CheckSphereBoxCollision(transformB.position, colliderB.radius,
             transformA.position, colliderA.width, colliderA.height, colliderA.depth)
    ELSE IF colliderA.type = "sphere" /\ colliderB.type = "sphere"
    THEN CheckSphereSphereCollision(transformA.position, colliderA.radius,
             transformB.position, colliderB.radius)
    ELSE IF colliderA.type = "sphere" /\ colliderB.type = "torus"
    THEN CheckSphereTorusCollision(transformA.position, colliderA.radius,
             transformB.position, transformB.rotation,
             colliderB.radius, colliderB.tube)
    ELSE IF colliderA.type = "torus" /\ colliderB.type = "sphere"
    THEN CheckSphereTorusCollision(transformB.position, colliderB.radius,
             transformA.position, transformA.rotation,
             colliderA.radius, colliderA.tube)
    ELSE NoCollision

---------------------------------------------------------------------------
(* CollisionSystem: ground, respawn and resolution, all acting on the marble *)

\* respawnMarble that also resets previousPosition
RespawnMarbleResetsPrevious(m) ==
    LET m1 == [m EXCEPT !.transform.position = Vec(0, MARBLE_RADIUS, 0),
                        !.transform.previousPosition = Vec(0, MARBLE_RADIUS, 0),
                        !.physics.velocity = Zero3,
                        !.physics.isOnGround = TRUE]
    IN  IF Has(m, "Jump")
        THEN [m1 EXCEPT !.jump.isJumping = FALSE, !.jump.isFalling = FALSE,
                        !.jump.isOnSurface = TRUE]
        ELSE m1

\* respawnMarble that stops the marble where it is
RespawnMarbleInPlace(m) ==
    LET m1 == [m EXCEPT !.physics.velocity = Zero3,
                        !.physics.isOnGround = TRUE]
    IN  IF Has(m, "Jump")
        THEN [m1 EXCEPT !.jump.isJumping = FALSE, !.jump.isFalling = FALSE,
                        !.jump.isOnSurface = TRUE]
        ELSE m1

\* respawnMarble that leaves the velocity as it was
RespawnMarbleKeepsVelocity(m) ==
    LET m1 == [m EXCEPT !.transform.position = Vec(0, MARBLE_RADIUS, 0),
                        !.physics.isOnGround = TRUE]
    IN  IF Has(m, "Jump")
        THEN [m1 EXCEPT !.jump.isJumping = FALSE, !.jump.isFalling = FALSE,
                        !.jump.isOnSurface = TRUE]
        ELSE m1

\* respawnMarble that lifts the marble by its radius instead of placing it
RespawnMarbleRelative(m) ==
    LET m1 == [m EXCEPT !.transform.position =
                            Vec(0, m.transform.position.y + MARBLE_RADIUS, 0),
                        !.physics.velocity = Zero3,
                        !.physics.isOnGround = TRUE]
    IN  IF Has(m, "Jump")
        THEN [m1 EXCEPT !.jump.isJumping = FALSE, !.jump.isFalling = FALSE,
                        !.jump.isOnSurface = TRUE]
        ELSE m1

\* CollisionSystem.respawnMarble
RespawnMarble(m) ==
    LET m1 == [m EXCEPT !.transform.position = Vec(0, MARBLE_RADIUS, 0),
                        !.physics.velocity = Zero3,
                        !.physics.isOnGround = TRUE]
    IN  IF Has(m, "Jump")
        THEN [m1 EXCEPT !.jump.isJumping = FALSE, !.jump.isFalling = FALSE,
                        !.jump.isOnSurface = TRUE]
        ELSE m1

\* horizontally within the main platform
WithinPlatform(m) ==
    /\ Abs(m.transform.position.x) <= PLATFORM_SIZE
    /\ Abs(m.transform.position.z) <= PLATFORM_SIZE

\* a ground test that only sees a marble within one radius below the ground level
TouchesGroundNear(m) ==
    /\ WithinPlatform(m)
    /\ m.transform.position.y <= MARBLE_RADIUS + GroundSnapEpsilon
    /\ m.transform.position.y >= 0

\* touching or below the ground level of the main platform
TouchesGround(m) ==
    WithinPlatform(m) /\ m.transform.position.y <= MARBLE_RADIUS + GroundSnapEpsilon

\* the ground branch of checkBoundaryCollisions is taken
HitsGround(m) == TouchesGround(m) /\ m.physics.velocity.y <= 0

\* the respawn branch of checkBoundaryCollisions is taken
FellOff(m) == ~WithinPlatform(m) /\ m.transform.position.y < -RespawnY

\* the ground branch without the update of the jump component
GroundLandingIgnoresJump(m) ==
    LET vy == m.physics.velocity.y
    IN  [m EXCEPT !.physics.isOnGround = TRUE,
                  !.physics.velocity.y =
                      IF vy < -BounceVelocityThreshold
                      THEN Mul(-vy, m.physics.bounceCoefficient)
                      ELSE 0,
                  !.transform.position.y = MARBLE_RADIUS]

\* the ground branch with the bounce scaled but not reflected
GroundLandingKeepsSign(m) ==
    LET m1 == IF Has(m, "Jump")
              THEN [m EXCEPT !.jump.isOnSurface = TRUE, !.jump.isJumping = FALSE,
                             !.jump.isFalling = FALSE]
              ELSE m
        vy == m.physics.velocity.y
    IN  [m1 EXCEPT !.physics.isOnGround = TRUE,
                   !.physics.velocity.y =
                       IF vy < -BounceVelocityThreshold
                       THEN Mul(vy, m.physics.bounceCoefficient)
                       ELSE 0,
                   !.transform.position.y = MARBLE_RADIUS]

\* the ground branch: flags, bounce or stop, snap to the ground
GroundLanding(m) ==
    LET m1 == IF Has(m, "Jump")
              THEN [m EXCEPT !.jump.isOnSurface = TRUE, !.jump.isJumping = FALSE,
                             !.jump.isFalling = FALSE]
              ELSE m
        vy == m.physics.velocity.y
    IN  [m1 EXCEPT !.physics.isOnGround = TRUE,
                   !.physics.velocity.y =
                       IF vy < -BounceVelocityThreshold
                       THEN Mul(-vy, m.physics.bounceCoefficient)
                       ELSE 0,
                   !.transform.position.y = MARBLE_RADIUS]

\* CollisionSystem.checkBoundaryCollisions
CheckBoundaryCollisions(m) ==
    IF WithinPlatform(m)
    THEN IF HitsGround(m) THEN GroundLanding(m) ELSE m
    ELSE IF FellOff(m) THEN RespawnMarble(m) ELSE m

\* marble velocity minus the other's (zero when the other has no Physics), along the normal
ApproachDot(m, other, normal) ==
    LET ov == IF Has(other, "Physics") THEN other.physics.velocity ELSE Zero3
    IN  VDot(VSub(m.physics.velocity, ov), normal)

\* the floor-like part of resolveCollision (normal.y > 0.1)
FloorContact(m, other) ==
    LET m1 == IF Has(m, "Jump")
              THEN [m EXCEPT !.jump.isOnSurface = TRUE, !.jump.isFalling = FALSE,
                             !.jump.isJumping =
                                 IF m.physics.velocity.y <= 0 THEN FALSE ELSE @]
              ELSE m
        frictionFactor == IF Has(other, "Surface") THEN other.surface.friction
                          ELSE m.physics.friction
        slideForce == IF Has(other, "Surface") /\ other.surface.isRamp
                      THEN Mul(Mul(other.surface.rampSin, m.physics.gravity),
                               other.surface.slideFactor)
                      ELSE 0
    IN  [m1 EXCEPT !.physics.isOnGround = TRUE,
                   !.physics.velocity.x = Mul(@, frictionFactor),
                   !.physics.velocity.z = Mul(@, frictionFactor) + slideForce]

\* the impulse without restitution: the approach speed is cancelled, not returned
ApplyImpulseInelastic(m, other, collision, dotProduct) ==
    [m EXCEPT !.physics.velocity =
                  VAdd(@, VScale(collision.normal, -dotProduct)),
              !.transform.position =
                  VAdd(@, VScale(collision.normal, collision.penetration))]

\* the impulse and the push-out of resolveCollision
ApplyImpulse(m, other, collision, dotProduct) ==
    LET bounceFactor == Min(m.physics.bounceCoefficient,
                            IF Has(other, "Surface") THEN other.surface.bounciness
                            ELSE m.physics.bounceCoefficient)
        impulse == -Mul(Scale + bounceFactor, dotProduct)
    IN  [m EXCEPT !.physics.velocity =
                      VAdd(@, VScale(collision.normal, impulse)),
                  !.transform.position =
                      VAdd(@, VScale(collision.normal, collision.penetration))]

\* resolveCollision without the early return for a trigger
ResolveCollisionOfTrigger(m, other, collision) ==
    LET dotProduct == ApproachDot(m, other, collision.normal)
    IN  IF dotProduct < 0
        THEN LET m1 == ApplyImpulse(m, other, collision, dotProduct)
             IN  IF collision.normal.y > FloorNormalY THEN FloorContact(m1, other)
                 ELSE m1
        ELSE m

\* resolveCollision with the push-out outside the test of the approach
ResolveCollisionAlwaysPushes(m, other, collision) ==
    IF other.collider.isTrigger THEN m
    ELSE LET dotProduct == ApproachDot(m, other, collision.normal)
             pushed == [m EXCEPT !.transform.position =
                           VAdd(@, VScale(collision.normal, collision.penetration))]
         IN  IF dotProduct < 0
             THEN LET m1 == ApplyImpulse(m, other, collision, dotProduct)
                  IN  IF collision.normal.y > FloorNormalY THEN FloorContact(m1, other)
                      ELSE m1
             ELSE pushed

\* CollisionSystem.resolveCollision
ResolveCollision(m, other, collision) ==
    IF other.collider.isTrigger THEN m
    ELSE LET dotProduct == ApproachDot(m, other, collision.normal)
         IN  IF dotProduct < 0
             THEN LET m1 == ApplyImpulse(m, other, collision, dotProduct)
                  IN  IF collision.normal.y > FloorNormalY THEN FloorContact(m1, other)
                      ELSE m1
             ELSE m

---------------------------------------------------------------------------
(* CollisionSystem.update *)

\* the start of the pass without the reset of the flags
ResetSurfaceDetectionSkipped(m) == m

\* the start of the pass clearing isOnSurface and leaving isOnGround
ResetSurfaceDetectionOfJump(m) ==
    IF Has(m, "Jump") THEN [m EXCEPT !.jump.isOnSurface = FALSE] ELSE m

\* the start of the pass over a marble: both ground flags are cleared
ResetSurfaceDetection(m) ==
    LET m1 == IF Has(m, "Jump") THEN [m EXCEPT !.jump.isOnSurface = FALSE] ELSE m
    IN  [m1 EXCEPT !.physics.isOnGround = FALSE]

\* the loop over the entities with Transform and Collider, from id i on:
\* acc.m is the marble so far, acc.log the contacts found so far
RECURSIVE ScanColliders(_, _, _, _)
ScanColliders(ents, marbleId, i, acc) ==
    IF i > Len(ents) THEN acc
    ELSE LET e == ents[i]
         IN  IF i = marbleId \/ ~Has(e, "Transform") \/ ~Has(e, "Collider")
             THEN ScanColliders(ents, marbleId, i + 1, acc)
             ELSE LET c == CheckCollision(acc.m.transform, acc.m.collider,
                                          e.transform, e.collider)
                  IN  IF c.collided
                      THEN LET m2 == ResolveCollision(acc.m, e, c)
                           IN  ScanColliders(ents, marbleId, i + 1,
                                   [m |-> m2,
                                    log |-> Append(acc.log,
                                        [other |-> i, collision |-> c,
                                         dot |-> ApproachDot(acc.m, e, c.normal),
                                         before |-> acc.m, after |-> m2])])
                      ELSE ScanColliders(ents, marbleId, i + 1, acc)

\* the pass over one marble: reset, ground check, then every other collider
CollideMarble(ents, marbleId) ==
    ScanColliders(ents, marbleId, 1,
        [m |-> CheckBoundaryCollisions(ResetSurfaceDetection(ents[marbleId])),
         log |-> << >>])

IsMarble(e) ==
    Has(e, "MarbleTag") /\ Has(e, "Transform") /\ Has(e, "Collider") /\ Has(e, "Physics")

\* the loop over the marbles, from id i on: acc.ents the entities so far
RECURSIVE CollideMarbles(_, _)
CollideMarbles(i, acc) ==
    IF i > Len(acc.ents) THEN acc
    ELSE IF IsMarble(acc.ents[i])
         THEN LET r == CollideMarble(acc.ents, i)
              IN  CollideMarbles(i + 1,
                      [ents |-> [acc.ents EXCEPT ![i] = r.m], log |-> acc.log \o r.log])
         ELSE CollideMarbles(i + 1, acc)

\* a pass that hands the opposite of the marble's velocity change to a dynamic
\* object the marble hit
CollisionPassTransfersImpulse(ents) ==
    LET r == CollideMarbles(1, [ents |-> ents, log |-> << >>])
        Hits(i) == { k \in DOMAIN r.log :
                       /\ r.log[k].other = i
                       /\ r.log[k].after.physics.velocity # r.log[k].before.physics.velocity }
        Kick(i) == LET k == CHOOSE h \in Hits(i) : TRUE
                   IN  VSub(r.log[k].after.physics.velocity,
                            r.log[k].before.physics.velocity)
    IN  [ents |-> [i \in DOMAIN r.ents |->
                      IF Has(r.ents[i], "Physics") /\ ~r.ents[i].physics.isStatic
                         /\ Hits(i) # {}
                      THEN [r.ents[i] EXCEPT !.physics.velocity = VSub(@, Kick(i))]
                      ELSE r.ents[i]],
         log |-> r.log]

CollisionPass(ents) == CollideMarbles(1, [ents |-> ents, log |-> << >>])

---------------------------------------------------------------------------
(* InputSystem.update *)

\* PlayerControl.setMoveDirection with camera angle 0: the arrow keys steer the
\* camera when no forward/backward key is held
MoveDirection(held) ==
    LET forward == "w" \in held \/ "ArrowUp" \in held
        backward == "s" \in held \/ "ArrowDown" \in held
        usingArrowsForCamera ==
            ("ArrowLeft" \in held \/ "ArrowRight" \in held) /\ ~(forward \/ backward)
        z == IF forward THEN -1 ELSE IF backward THEN 1 ELSE 0
        x == IF "a" \in held \/ ("ArrowLeft" \in held /\ ~usingArrowsForCamera) THEN -1
             ELSE IF "d" \in held \/ ("ArrowRight" \in held /\ ~usingArrowsForCamera)
                  THEN 1 ELSE 0
        length == ISqrt((x * x + z * z) * Scale * Scale)
    IN  IF length > 0
        THEN [x |-> TDiv(x * Scale * Scale, length), z |-> TDiv(z * Scale * Scale, length)]
        ELSE [x |-> 0, z |-> 0]

\* the body of the loop without the test of the space key
InputEntityAlwaysRequests(e, held) ==
    LET e1 == [e EXCEPT !.control.moveDirection = MoveDirection(held)]
    IN  IF Has(e1, "Jump")
        THEN [e1 EXCEPT !.jump = RequestJump(@)]
        ELSE e1

\* the body of the loop of InputSystem.update, for an entity with PlayerControl
InputEntity(e, held) ==
    LET e1 == [e EXCEPT !.control.moveDirection = MoveDirection(held)]
    IN  IF Has(e1, "Jump") /\ " " \in held
        THEN [e1 EXCEPT !.jump = RequestJump(@)]
        ELSE e1

---------------------------------------------------------------------------
(* The worlds: entities as the factories and the tests build them *)

\* MarbleFactory.create, then position, velocity and gravity as a test sets them
Marble(position, velocity, gravity) ==
    Entity({"Transform", "Physics", "Collider", "Jump", "PlayerControl", "MarbleTag"},
           Transform(position),
           [Physics(Scale, gravity) EXCEPT !.velocity = velocity],
           SphereCollider(MARBLE_RADIUS), Surface(GROUND_FRICTION), Jump(JUMP_POWER))

\* PlatformFactory.createMainPlatform: a static box 0.1 high around the origin
MainPlatform ==
    Entity({"Transform", "Physics", "Collider", "Surface"},
           Transform(Zero3),
           [Physics(0, 0) EXCEPT !.isStatic = TRUE],
           BoxCollider(2 * PLATFORM_SIZE, 1000, 2 * PLATFORM_SIZE),
           Surface(GROUND_FRICTION), Jump(JUMP_POWER))

\* PlatformFactory.createJumpPlatform: a static box with Surface(0.05)
JumpPlatform(position, size, height) ==
    Entity({"Transform", "Physics", "Collider", "Surface"},
           Transform(position),
           [Physics(0, 0) EXCEPT !.isStatic = TRUE],
           BoxCollider(size, height, size), Surface(500), Jump(JUMP_POWER))

\* ObstacleFactory.createSphereObstacle: Surface(0.8), static or falling
SphereObstacle(position, radius, isStatic) ==
    Entity({"Transform", "Physics", "Collider", "Surface"},
           Transform(position),
           [Physics(IF isStatic THEN 0 ELSE Scale, IF isStatic THEN 0 ELSE GRAVITY)
                EXCEPT !.isStatic = isStatic],
           SphereCollider(radius), Surface(8000), Jump(JUMP_POWER))

\* ObstacleFactory.createBoxObstacle: Surface(0.8), static or falling
BoxObstacle(position, width, height, depth, isStatic) ==
    Entity({"Transform", "Physics", "Collider", "Surface"},
           Transform(position),
           [Physics(IF isStatic THEN 0 ELSE Scale, IF isStatic THEN 0 ELSE GRAVITY)
                EXCEPT !.isStatic = isStatic],
           BoxCollider(width, height, depth), Surface(8000), Jump(JUMP_POWER))

\* ObstacleFactory.createTorusObstacle: a static ring with Surface(0.7)
TorusObstacle(position, radius, tube, rotation) ==
    Entity({"Transform", "Physics", "Collider", "Surface"},
           [Transform(position) EXCEPT !.rotation = rotation],
           [Physics(0, 0) EXCEPT !.isStatic = TRUE],
           TorusCollider(radius, tube), Surface(7000), Jump(JUMP_POWER))

\* a detection-only zone: Transform and a sphere collider whose isTrigger is set
TriggerZone(position, radius) ==
    Entity({"Transform", "Collider"},
           Transform(position), Physics(0, 0),
           [SphereCollider(radius) EXCEPT !.isTrigger = TRUE],
           Surface(GROUND_FRICTION), Jump(JUMP_POWER))

\* the marble is the first entity created (World.nextEntityId starts at 1)
MarbleId == 1

\* The course: main platform, a static sphere obstacle at (2, 0.8, 0), a jump
\* platform at (-20, 1, -30), a trigger zone at (0, 1, 0) and a falling sphere
\* obstacle above the origin.
Course(marble) ==
    << marble,
       MainPlatform,
       SphereObstacle(Vec(20000, 8000, 0), MARBLE_RADIUS, TRUE),
       JumpPlatform(Vec(-200000, 10000, -300000), 80000, 5000),
       TriggerZone(Vec(0, 10000, 0), 10000),
       SphereObstacle(Vec(0, 26000, 0), MARBLE_RADIUS, FALSE) >>

\* Physics(1, 0.1), the gravity the tests use
TEST_GRAVITY == 1000

\* where the marble starts: position and velocity
Starts ==
    { \* the game: at rest on the ground at the origin
      [position |-> Vec(0, MARBLE_RADIUS, 0), velocity |-> Zero3],
      \* rolling at 0.15 per tick toward the static sphere
      [position |-> Vec(0, MARBLE_RADIUS, 0), velocity |-> Vec(1500, 0, 0)],
      \* in the air above the ground
      [position |-> Vec(0, 15000, 0), velocity |-> Zero3],
      \* above the jump platform
      [position |-> Vec(-200000, 23000, -300000), velocity |-> Zero3],
      \* beyond the edge of the platform, just above the respawn threshold
      [position |-> Vec(1010000, -199000, 0), velocity |-> Zero3] }

Gravities == {GRAVITY, TEST_GRAVITY}

\* frame times: 16 ms and the 100 ms cap of the game loop
DeltaTimes == {160, 1000}

\* the keys the model presses
Keys == {" "}

\* main.js: InputSystem, JumpSystem, PhysicsSystem, CollisionSystem (the camera,
\* render and debug systems that follow write none of the state modelled here)
GameSystems == <<"Input", "Jump", "Physics", "Collision">>

\* createTestWorld with its default configuration
TestSystems == <<"Physics", "Collision", "Jump">>

InitHist(ents) ==
    [pass |-> "none", pre |-> ents, launched |-> FALSE,
     sinceLaunch |-> -1, gap |-> -1, contacts |-> << >>, ran |-> << >>]

InitWith(ents, sys) ==
    /\ entities = ents
    /\ systems = sys
    /\ pc = 0
    /\ dt = 0
    /\ keys = {}
    /\ tick = 0
    /\ keyEvents = 0
    /\ hist = InitHist(ents)

Init ==
    \E s \in Starts, g \in Gravities :
        InitWith(Course(Marble(s.position, s.velocity, g)), GameSystems)

---------------------------------------------------------------------------
(* Actions *)

NextPc == IF pc = Len(systems) THEN 0 ELSE pc + 1

Running(name) == pc > 0 /\ systems[pc] = name

\* hist after a pass that is not the integrator
Observe(name, log) ==
    [hist EXCEPT !.pass = name, !.pre = entities, !.launched = FALSE,
                 !.contacts = log, !.ran = Append(@, name)]

\* the game loop starts a frame: World.update(deltaTime)
Animate ==
    /\ pc = 0
    /\ tick < MaxTicks
    /\ \E d \in DeltaTimes : dt' = d
    /\ pc' = 1
    /\ tick' = tick + 1
    /\ hist' = [hist EXCEPT !.ran = << >>]
    /\ UNCHANGED <<entities, systems, keys, keyEvents>>

\* InputManager.handleKeyDown, between frames
KeyDown(k) ==
    /\ pc = 0
    /\ keyEvents < MaxKeyEvents
    /\ k \notin keys
    /\ keys' = keys \cup {k}
    /\ keyEvents' = keyEvents + 1
    /\ UNCHANGED <<entities, systems, pc, dt, tick, hist>>

\* InputManager.handleKeyUp, between frames
KeyUp(k) ==
    /\ pc = 0
    /\ keyEvents < MaxKeyEvents
    /\ k \in keys
    /\ keys' = keys \ {k}
    /\ keyEvents' = keyEvents + 1
    /\ UNCHANGED <<entities, systems, pc, dt, tick, hist>>

\* InputSystem.update
InputSystemUpdate ==
    /\ Running("Input")
    /\ entities' = [i \in DOMAIN entities |->
                       IF Has(entities[i], "PlayerControl")
                       THEN InputEntity(entities[i], keys) ELSE entities[i]]
    /\ hist' = Observe("Input", << >>)
    /\ pc' = NextPc
    /\ UNCHANGED <<systems, dt, keys, tick, keyEvents>>

\* JumpSystem.update
JumpSystemUpdate ==
    /\ Running("Jump")
    /\ entities' = [i \in DOMAIN entities |->
                       IF {"Transform", "Physics", "Jump"} \subseteq entities[i].has
                       THEN JumpSystemEntity(entities[i]) ELSE entities[i]]
    /\ hist' = Observe("Jump", << >>)
    /\ pc' = NextPc
    /\ UNCHANGED <<systems, dt, keys, tick, keyEvents>>

\* PhysicsSystem.update
PhysicsSystemUpdate ==
    /\ Running("Physics")
    /\ entities' = [i \in DOMAIN entities |->
                       IF {"Transform", "Physics"} \subseteq entities[i].has
                       THEN PhysicsEntity(entities[i], dt) ELSE entities[i]]
    /\ LET launched == Launches(entities[MarbleId], dt)
           elapsed == IF hist.sinceLaunch < 0 THEN -1
                      ELSE Min(hist.sinceLaunch + dt, JumpCooldownTime)
       IN  hist' = [hist EXCEPT !.pass = "Physics", !.pre = entities,
                                !.launched = launched,
                                !.sinceLaunch = IF launched THEN 0 ELSE elapsed,
                                !.gap = IF launched THEN elapsed ELSE @,
                                !.contacts = << >>,
                                !.ran = Append(@, "Physics")]
    /\ pc' = NextPc
    /\ UNCHANGED <<systems, dt, keys, tick, keyEvents>>

\* CollisionSystem.update
CollisionSystemUpdate ==
    /\ Running("Collision")
    /\ LET r == CollisionPass(entities)
       IN  /\ entities' = r.ents
           /\ hist' = Observe("Collision", r.log)
    /\ pc' = NextPc
    /\ UNCHANGED <<systems, dt, keys, tick, keyEvents>>

Next ==
    \/ Animate
    \/ \E k \in Keys : KeyDown(k)
    \/ \E k \in Keys : KeyUp(k)
    \/ InputSystemUpdate
    \/ JumpSystemUpdate
    \/ PhysicsSystemUpdate
    \/ CollisionSystemUpdate

Spec == Init /\ [][Next]_vars

---------------------------------------------------------------------------
(* The test world and a world with a static marble *)

\* a direct call of Jump.requestJump on the marble, between frames, as the
\* tests make it where no InputSystem is registered
RequestJumpCall ==
    /\ pc = 0
    /\ keyEvents < MaxKeyEvents
    /\ Has(entities[MarbleId], "Jump")
    /\ entities' = [entities EXCEPT ![MarbleId].jump = RequestJump(@)]
    /\ keyEvents' = keyEvents + 1
    /\ UNCHANGED <<systems, pc, dt, keys, tick, hist>>

InitTestWorld ==
    \E s \in Starts, g \in Gravities :
        InitWith(Course(Marble(s.position, s.velocity, g)), TestSystems)

NextTestWorld ==
    \/ Animate
    \/ RequestJumpCall
    \/ JumpSystemUpdate
    \/ PhysicsSystemUpdate
    \/ CollisionSystemUpdate

\* the world createTestWorld wires up: PhysicsSystem, CollisionSystem, JumpSystem
SpecTestWorld == InitTestWorld /\ [][NextTestWorld]_vars

\* a marble whose Physics.isStatic is set, as the factories set it on platforms
StaticMarble(position, velocity, gravity) ==
    [Marble(position, velocity, gravity) EXCEPT !.physics.isStatic = TRUE]

InitStatic ==
    \E s \in Starts, g \in Gravities :
        InitWith(Course(StaticMarble(s.position, s.velocity, g)), GameSystems)

\* the game's systems over a world whose marble is static
SpecStatic == InitStatic /\ [][Next]_vars

---------------------------------------------------------------------------
(* Observations used by the properties *)

TheMarble == entities[MarbleId]
MarbleBefore == hist.pre[MarbleId]
Jumpers == {i \in DOMAIN entities : Has(entities[i], "Jump")}
FrameEnded == pc = 0 /\ tick > 0

\* a contact of the last resolver pass that was resolved as floor-like
ResolvedFloorContact(c) ==
    /\ ~entities[c.other].collider.isTrigger
    /\ c.dot < 0
    /\ c.collision.normal.y > FloorNormalY

\* the three gameplay passes among the systems named in a sequence
CorePasses(names) ==
    SelectSeq(names, LAMBDA n : n \in {"Jump", "Physics", "Collision"})

JumpIntegrateResolve == <<"Jump", "Physics", "Collision">>

IsPrefix(s, t) == Len(s) <= Len(t) /\ \A k \in 1..Len(s) : s[k] = t[k]

---------------------------------------------------------------------------
(* Jump state machine *)

\* C1: no object with a jump state is ever at once Jumping and Falling.
C1_NeverJumpingAndFalling ==
    \A i \in Jumpers : ~(entities[i].jump.isJumping /\ entities[i].jump.isFalling)

\* the marble has launched and has since passed its apex
C1_Witness ==
    /\ hist.sinceLaunch >= 0
    /\ TheMarble.jump.isFalling
    /\ ~TheMarble.jump.isJumping

\* C2: at the end of every tick an object whose isOnSurface is true is neither
\* Jumping nor Falling.
C2_GroundedAtFrameEnd ==
    FrameEnded =>
        \A i \in Jumpers :
            entities[i].jump.isOnSurface =>
                ~entities[i].jump.isJumping /\ ~entities[i].jump.isFalling

\* C3: the integrator launches a jump only when, after the cooldown has been
\* decremented in that call, a jump is requested, the object is on a surface, it
\* is not Jumping and the cooldown has run out.
C3_LaunchOnlyWhenAllowed ==
    hist.launched =>
        LET j == UpdateCooldown(MarbleBefore.jump, dt)
        IN  /\ hist.pass = "Physics"
            /\ j.jumpRequested
            /\ j.isOnSurface
            /\ ~j.isJumping
            /\ j.jumpCooldown <= 0

\* the integrator has just launched the marble
C3_Witness ==
    /\ hist.launched
    /\ TheMarble.jump.isJumping
    /\ TheMarble.jump.jumpCooldown = TheMarble.jump.jumpCooldownTime

\* the state C4 starts from: a movable object on a surface, not Jumping, with no
\* cooldown left and a jump requested, on which the integrator has just run
GroundedRequestIntegrated ==
    /\ hist.pass = "Physics"
    /\ Has(MarbleBefore, "Jump")
    /\ ~MarbleBefore.physics.isStatic
    /\ MarbleBefore.jump.isOnSurface
    /\ ~MarbleBefore.jump.isJumping
    /\ MarbleBefore.jump.jumpCooldown <= 0
    /\ MarbleBefore.jump.jumpRequested

\* C4 as stated: from that state one integrator call leaves the object Jumping,
\* off the surface and with velocity.y equal to jumpPower.
C4_LaunchVelocityIsJumpPower ==
    GroundedRequestIntegrated =>
        /\ TheMarble.jump.isJumping
        /\ ~TheMarble.jump.isOnSurface
        /\ TheMarble.physics.velocity.y = TheMarble.jump.jumpPower

\* C4: from that state one integrator call leaves the object Jumping, off the
\* surface, and with velocity.y equal to jumpPower less one step of gravity,
\* which the same call applies because the object has left the surface.
C4_LaunchFromGrounded ==
    GroundedRequestIntegrated =>
        /\ TheMarble.jump.isJumping
        /\ ~TheMarble.jump.isOnSurface
        /\ TheMarble.physics.velocity.y =
               TheMarble.jump.jumpPower - TheMarble.physics.gravity

C4_Witness == GroundedRequestIntegrated /\ hist.launched

\* C5: isJumping goes from false to true only in an integrator call that consumes
\* a jump request; when no jump is ever requested no object is ever Jumping.
C5_JumpingOnlyByRequest ==
    /\ \A i \in Jumpers :
           (~hist.pre[i].jump.isJumping /\ entities[i].jump.isJumping) =>
               /\ hist.pass = "Physics"
               /\ hist.pre[i].jump.jumpRequested
               /\ ~entities[i].jump.jumpRequested
    /\ keyEvents = 0 => \A i \in Jumpers : ~entities[i].jump.isJumping

\* the integrator has just turned a request into Jumping
C5_Witness ==
    /\ hist.pass = "Physics"
    /\ MarbleBefore.jump.jumpRequested
    /\ ~MarbleBefore.jump.isJumping
    /\ TheMarble.jump.isJumping

\* C6: between two successive launches of the same object the dt the integrator
\* was given adds up to at least jumpCooldownTime.
C6_CooldownBetweenLaunches ==
    hist.gap >= 0 => hist.gap >= TheMarble.jump.jumpCooldownTime

\* the marble has launched a second time
C6_Witness == hist.launched /\ hist.gap >= 0

---------------------------------------------------------------------------
(* Order of the passes *)

\* C7: every wiring of the systems registers the jump transition pass, then the
\* integrator, then the resolver, and every tick runs them once each in that order.
C7_JumpIntegrateResolveOrder ==
    /\ CorePasses(systems) = JumpIntegrateResolve
    /\ IsPrefix(CorePasses(hist.ran), JumpIntegrateResolve)
    /\ FrameEnded => CorePasses(hist.ran) = JumpIntegrateResolve

---------------------------------------------------------------------------
(* Resolver *)

\* the marble was found in contact with the ground or with a solid floor-like collider
FloorLikeContactFound ==
    \/ TouchesGround(MarbleBefore)
    \/ \E k \in DOMAIN hist.contacts :
           /\ ~entities[hist.contacts[k].other].collider.isTrigger
           /\ hist.contacts[k].collision.normal.y > FloorNormalY

\* the resolver acted on a contact with the ground or with a floor-like collider,
\* or put the marble back at its start
FloorLikeContactResolved ==
    \/ HitsGround(MarbleBefore)
    \/ FellOff(MarbleBefore)
    \/ \E k \in DOMAIN hist.contacts : ResolvedFloorContact(hist.contacts[k])

C9_SeparatingContactUntouched ==
    \A k \in DOMAIN hist.contacts :
        LET c == hist.contacts[k]
        IN  c.dot >= 0 =>
                /\ c.after.physics.velocity = c.before.physics.velocity
                /\ c.after.transform.position = c.before.transform.position

\* the marble overlaps a solid collider it is not approaching
C9_Witness ==
    \E k \in DOMAIN hist.contacts :
        /\ hist.contacts[k].dot >= 0
        /\ hist.contacts[k].collision.penetration > 0
        /\ ~entities[hist.contacts[k].other].collider.isTrigger

\* C10: the integrator and the resolver never change the position or the
\* velocity of an object whose isStatic is set, whatever else the object is.
C10_StaticNeverMoved ==
    hist.pass \in {"Physics", "Collision"} =>
        \A i \in DOMAIN entities :
            (Has(hist.pre[i], "Physics") /\ hist.pre[i].physics.isStatic) =>
                /\ entities[i].transform.position = hist.pre[i].transform.position
                /\ entities[i].physics.velocity = hist.pre[i].physics.velocity

---------------------------------------------------------------------------
(* Frame effects of the integrator and the resolver *)

\* the entities the integrator moves
Integrated == {i \in DOMAIN entities :
                  /\ {"Transform", "Physics"} \subseteq hist.pre[i].has
                  /\ ~hist.pre[i].physics.isStatic}

\* C11: previousPosition is written only by the integrator: after its pass over
\* a non-static object it is the position the object had when the pass began,
\* and no other pass (the resolver with its ground snap, push-out and respawn
\* included) changes it.
C11_PreviousPositionByIntegrator ==
    \A i \in DOMAIN entities :
        IF hist.pass = "Physics" /\ i \in Integrated
        THEN entities[i].transform.previousPosition = hist.pre[i].transform.position
        ELSE entities[i].transform.previousPosition =
                 hist.pre[i].transform.previousPosition

\* the resolver has just respawned the marble, away from where it was
C11_Witness ==
    /\ hist.pass = "Collision"
    /\ FellOff(MarbleBefore)
    /\ TheMarble.transform.position /= MarbleBefore.transform.position
    /\ TheMarble.transform.previousPosition = MarbleBefore.transform.previousPosition

\* the entities of a pass with every trigger collider taken away
WithoutTriggers(ents) ==
    [i \in DOMAIN ents |->
        IF Has(ents[i], "Collider") /\ ents[i].collider.isTrigger
        THEN [ents[i] EXCEPT !.has = @ \ {"Collider"}]
        ELSE ents[i]]

\* a contact of the last resolver pass with a trigger
TriggerContacts ==
    {k \in DOMAIN hist.contacts : entities[hist.contacts[k].other].collider.isTrigger}

\* C12: a trigger collider is detected but never resolved: a resolver pass
\* leaves the marble exactly as the same pass without the trigger colliders.
C12_TriggerNeverResolved ==
    hist.pass = "Collision" =>
        TheMarble = CollisionPass(WithoutTriggers(hist.pre)).ents[MarbleId]

\* the marble overlaps a trigger it is moving into
C12_Witness ==
    /\ hist.pass = "Collision"
    /\ \E k \in TriggerContacts : hist.contacts[k].dot < 0

\* the marble as the world-boundary check of the last resolver pass found it
BoundaryChecked == ResetSurfaceDetection(MarbleBefore)

\* C13: within the platform extent, at position.y <= radius + 0.1 and with
\* velocity.y <= 0, the world-boundary check puts position.y at the radius, sets
\* isOnGround and isOnSurface, clears isJumping and isFalling, and reflects
\* velocity.y by bounceCoefficient if it was below -0.05 and zeroes it otherwise,
\* so that velocity.y >= 0 afterwards.
C13_GroundBranch ==
    (hist.pass = "Collision" /\ HitsGround(BoundaryChecked)) =>
        LET m == CheckBoundaryCollisions(BoundaryChecked)
            vy == BoundaryChecked.physics.velocity.y
        IN  /\ m.transform.position.y = MARBLE_RADIUS
            /\ m.transform.position.x = BoundaryChecked.transform.position.x
            /\ m.transform.position.z = BoundaryChecked.transform.position.z
            /\ m.physics.isOnGround
            /\ m.jump.isOnSurface
            /\ ~m.jump.isJumping
            /\ ~m.jump.isFalling
            /\ m.physics.velocity.y =
                   IF vy < -BounceVelocityThreshold
                   THEN Mul(-vy, BoundaryChecked.physics.bounceCoefficient)
                   ELSE 0
            /\ m.physics.velocity.y >= 0

\* the marble hit the ground fast enough to bounce
C13_Witness ==
    /\ hist.pass = "Collision"
    /\ HitsGround(BoundaryChecked)
    /\ BoundaryChecked.physics.velocity.y < -BounceVelocityThreshold
    /\ BoundaryChecked.transform.position.y < MARBLE_RADIUS

\* the state respawnMarble leaves: at the start point, at rest, Grounded
Respawned(m) ==
    /\ m.transform.position = Vec(0, MARBLE_RADIUS, 0)
    /\ m.physics.velocity = Zero3
    /\ ~m.jump.isJumping
    /\ ~m.jump.isFalling
    /\ m.jump.isOnSurface
    /\ m.physics.isOnGround

\* C14 as stated: a resolver pass that starts with the marble outside the platform
\* extent and below y = -20 ends with the marble at (0, radius, 0), at rest and
\* Grounded.
C14_RespawnedAtPassEnd ==
    (hist.pass = "Collision" /\ FellOff(MarbleBefore)) => Respawned(TheMarble)

\* the last resolver pass resolved a contact (approaching, not a trigger)
SomeContactResolved ==
    \E k \in DOMAIN hist.contacts :
        /\ hist.contacts[k].dot < 0
        /\ ~entities[hist.contacts[k].other].collider.isTrigger

\* C14: in a resolver pass that starts with the marble outside the platform
\* extent and below y = -20, the world-boundary check leaves the marble at
\* (0, radius, 0), at rest and Grounded; the marble ends the pass in that state
\* unless the pairwise loop of the same pass then resolves a contact at that place.
C14_RespawnedByBoundaryCheck ==
    (hist.pass = "Collision" /\ FellOff(MarbleBefore)) =>
        /\ Respawned(CheckBoundaryCollisions(BoundaryChecked))
        /\ ~SomeContactResolved => Respawned(TheMarble)

\* a pass that respawned the marble and resolved no contact afterwards
C14_Witness ==
    /\ hist.pass = "Collision"
    /\ FellOff(MarbleBefore)
    /\ ~SomeContactResolved
    /\ MarbleBefore.physics.velocity /= Zero3

\* C15: respawn is idempotent: respawning a marble that has just been respawned
\* changes no field of it.
C15_RespawnIdempotent ==
    \A i \in DOMAIN entities :
        IsMarble(entities[i]) =>
            RespawnMarble(RespawnMarble(entities[i])) = RespawnMarble(entities[i])

\* the marble has just been respawned from somewhere else
C15_Witness ==
    /\ hist.pass = "Collision"
    /\ FellOff(MarbleBefore)
    /\ RespawnMarble(MarbleBefore) /= MarbleBefore
    /\ RespawnMarble(TheMarble) = TheMarble

---------------------------------------------------------------------------
(* The game loop left running: frames without end, every object static or the
   marble, so that the states repeat *)

\* the course without the falling sphere obstacle
RestCourse(marble) ==
    << marble,
       MainPlatform,
       SphereObstacle(Vec(20000, 8000, 0), MARBLE_RADIUS, TRUE),
       JumpPlatform(Vec(-200000, 10000, -300000), 80000, 5000),
       TriggerZone(Vec(0, 10000, 0), 10000) >>

\* where the marble starts, at rest: on the ground, in the air above the ground,
\* above the jump platform, beyond the edge of the platform
RestStarts ==
    { Vec(0, MARBLE_RADIUS, 0),
      Vec(0, 15000, 0),
      Vec(-200000, 23000, -300000),
      Vec(1010000, -199000, 0) }

InitRunning ==
    \E p \in RestStarts, g \in Gravities :
        InitWith(RestCourse(Marble(p, Zero3, g)), GameSystems)

\* the game loop starts a frame; frames are not counted past the first
AnimateOn ==
    /\ pc = 0
    /\ \E d \in DeltaTimes : dt' = d
    /\ pc' = 1
    /\ tick' = 1
    /\ hist' = [hist EXCEPT !.ran = << >>]
    /\ UNCHANGED <<entities, systems, keys, keyEvents>>

NextRunning ==
    \/ AnimateOn
    \/ \E k \in Keys : KeyDown(k)
    \/ \E k \in Keys : KeyUp(k)
    \/ InputSystemUpdate
    \/ JumpSystemUpdate
    \/ PhysicsSystemUpdate
    \/ CollisionSystemUpdate

\* World.update moves on to the next registered system
UpdateAdvances == pc > 0 /\ pc' = NextPc

\* requestAnimationFrame keeps calling animate, and World.update runs every
\* system of the frame it started
SpecRunning ==
    InitRunning /\ [][NextRunning]_vars /\ WF_vars(AnimateOn) /\ WF_pc(UpdateAdvances)

\* the Grounded state of the jump state machine
Grounded(m) == m.jump.isOnSurface /\ ~m.jump.isJumping /\ ~m.jump.isFalling

\* at rest on a surface
Settled(m) == Grounded(m) /\ m.physics.velocity.y = 0

\* C16: with no further input the marble settles: from some frame on, every frame
\* ends with the marble Grounded and velocity.y = 0, on the main ground and on
\* any floor-like collider it rests on.
C16_SettlesWithoutInput ==
    <>[](keys = {}) => <>[](FrameEnded => Settled(TheMarble))

\* C17: a marble that is outside the platform extent is, within finitely many
\* ticks, respawned at (0, radius, 0), at rest and Grounded.
C17_FallenMarbleRespawns ==
    (~WithinPlatform(TheMarble)) ~> (hist.pass = "Collision" /\ Respawned(TheMarble))

\* the marble fell below the threshold and the resolver respawned it
C17_Witness ==
    /\ hist.pass = "Collision"
    /\ FellOff(MarbleBefore)
    /\ MarbleBefore.physics.velocity.y < 0
    /\ Respawned(TheMarble)

\* C18: every marble that is Jumping is Grounded again at the end of a later
\* frame, as long as frames keep running.
C18_JumpingReturnsToGrounded ==
    TheMarble.jump.isJumping ~> (FrameEnded /\ Grounded(TheMarble))

\* a frame ends with the marble Grounded after a jump
C18_Witness ==
    /\ FrameEnded
    /\ hist.sinceLaunch > 0
    /\ Grounded(TheMarble)

\* C19: a jump launched by the integrator is not undone by the resolver of the
\* same tick: the tick of the launch ends with isJumping = true and
\* isOnSurface = false.
C19_LaunchSurvivesTick ==
    (FrameEnded /\ hist.pass = "Collision" /\ hist.sinceLaunch = 0) =>
        /\ TheMarble.jump.isJumping
        /\ ~TheMarble.jump.isOnSurface

---------------------------------------------------------------------------
(* The marble on the axis of a ring *)

\* the ring is created after the marble and the main platform
RingId == 3

\* the ring of main.js, upright at (30, RING_RADIUS + 1, -30) with its axis along
\* z, and the same ring lying flat on the ground (createTorusObstacle with
\* rotation (0, 0, 0)) with its axis vertical; the marble starts on the axis
RingScenes ==
    LET upright == [position |-> Vec(300000, RING_RADIUS + Scale, -300000),
                    rotation |-> Vec(HalfPi, 0, 0)]
        flat == [position |-> Vec(300000, RING_THICKNESS, -300000),
                 rotation |-> Zero3]
    IN  { [ring |-> upright, marble |-> Vec(300000, 60000, -300000)],
          [ring |-> upright, marble |-> Vec(300000, 60000, -290000)],
          [ring |-> upright, marble |-> Vec(300000, 60000, -270000)],
          [ring |-> flat, marble |-> Vec(300000, MARBLE_RADIUS, -300000)] }

RingCourse(marble, ring) ==
    << marble,
       MainPlatform,
       TorusObstacle(ring.position, RING_RADIUS, RING_THICKNESS, ring.rotation) >>

InitRing ==
    \E s \in RingScenes, g \in Gravities :
        InitWith(RingCourse(Marble(s.marble, Zero3, g), s.ring), GameSystems)

SpecRing == InitRing /\ [][Next]_vars

TheRing == entities[RingId]

\* the marble's centre in the frame of the ring
MarbleInRingFrame ==
    ApplyInverseRotation(
        VSub(TheMarble.transform.position, TheRing.transform.position),
        TheRing.transform.rotation)

\* the marble's centre is on the central axis of the ring
OnRingAxis == MarbleInRingFrame.x = 0 /\ MarbleInRingFrame.z = 0

\* C20: a sphere centred on the central axis of the torus, which is within
\* majorRadius - tubeRadius - sphereRadius of the centre in the ring plane,
\* reports collided = false at every distance along the axis.
C20_AxisNeverCollides ==
    (OnRingAxis /\ TheRing.collider.radius - TheRing.collider.tube
                       - TheMarble.collider.radius > 0) =>
        ~CheckCollision(TheMarble.transform, TheMarble.collider,
                        TheRing.transform, TheRing.collider).collided

---------------------------------------------------------------------------
(* The marble inside a box obstacle *)

\* the box is created after the marble and the main platform
BoxId == 3

\* a static box obstacle 4 x 2 x 4 standing on the ground at (10, 1, 0)
BoxPosition == Vec(100000, 10000, 0)
TheBoxObstacle == BoxObstacle(BoxPosition, 40000, 20000, 40000, TRUE)

\* the marble is created with its centre in the box or on a face of it: off
\* centre, on the mid-planes, and at equal distances from two faces
BoxStarts ==
    { VAdd(BoxPosition, Vec(x, y, z)) :
        x \in {-15000, 0, 10000, 15000, 20000},
        y \in {-5000, 0, 5000},
        z \in {-15000, 0, 10000} }

InitBox ==
    \E p \in BoxStarts, g \in Gravities :
        InitWith(<< Marble(p, Zero3, g), MainPlatform, TheBoxObstacle >>, GameSystems)

SpecBox == InitBox /\ [][Next]_vars

TheBox == entities[BoxId]

\* localSpherePos of checkSphereBoxCollision for the marble and the box
MarbleInBoxFrame == VSub(TheMarble.transform.position, TheBox.transform.position)

\* the distances to the faces of the box along the three axes
FaceDistance ==
    [x |-> TheBox.collider.width \div 2 - Abs(MarbleInBoxFrame.x),
     y |-> TheBox.collider.height \div 2 - Abs(MarbleInBoxFrame.y),
     z |-> TheBox.collider.depth \div 2 - Abs(MarbleInBoxFrame.z)]

\* the clamped closest point is the sphere centre itself
EmbeddedInBox == FaceDistance.x >= 0 /\ FaceDistance.y >= 0 /\ FaceDistance.z >= 0

\* the centre is strictly inside the half-extents
StrictlyInsideBox == FaceDistance.x > 0 /\ FaceDistance.y > 0 /\ FaceDistance.z > 0

\* what the narrow phase reports for the marble and the box
BoxContact ==
    CheckCollision(TheMarble.transform, TheMarble.collider,
                   TheBox.transform, TheBox.collider)

AxisUnit(a) == [x |-> Vec(Scale, 0, 0), y |-> Vec(0, Scale, 0), z |-> Vec(0, 0, Scale)][a]

\* C21: for a sphere centre embedded in the box the normal lies along an axis
\* whose distance-to-face is the minimum of the three, with the sign of the
\* local centre on that axis, also when two axes are at equal distance.
C21_NormalAlongMinimumAxis ==
    EmbeddedInBox =>
        \E a \in {"x", "y", "z"} :
            /\ FaceDistance[a] <= FaceDistance.x
            /\ FaceDistance[a] <= FaceDistance.y
            /\ FaceDistance[a] <= FaceDistance.z
            /\ BoxContact.normal = VScale(AxisUnit(a), Sign(MarbleInBoxFrame[a]) * Scale)

\* what the narrow phase reports for the marble and every other collider
Contacts ==
    { CheckCollision(TheMarble.transform, TheMarble.collider,
                     entities[i].transform, entities[i].collider) :
        i \in {j \in DOMAIN entities : j /= MarbleId /\ Has(entities[j], "Collider")} }

\* unit length, to the resolution of the fixed-point normalization (0.1 %)
IsUnit(v) == Abs(VLength(v) - Scale) <= 10

\* C22: every narrow-phase result with collided = true carries a normal of unit
\* length and a penetration >= 0; degenerate geometry (a sphere centre on a
\* mid-plane of a box included) yields a unit normal, never a zero-length one.
C22_ContactNormalIsUnit ==
    \A c \in Contacts : c.collided => IsUnit(c.normal) /\ c.penetration >= 0

\* C23: a sphere whose centre lies strictly inside the half-extents of a box
\* yields collided = true with penetration > 0.
C23_ContainedSphereCollides ==
    StrictlyInsideBox => BoxContact.collided /\ BoxContact.penetration > 0

\* the integrator has moved the marble to a point strictly inside the box
C23_Witness ==
    /\ hist.pass = "Physics"
    /\ StrictlyInsideBox
    /\ TheMarble.transform.position /= MarbleBefore.transform.position
    /\ BoxContact.collided

---------------------------------------------------------------------------
(* Restitution *)

\* the contacts of the last resolver pass that were resolved
ResolvedContacts ==
    {k \in DOMAIN hist.contacts :
        /\ hist.contacts[k].dot < 0
        /\ ~hist.pre[hist.contacts[k].other].collider.isTrigger}

\* bounceFactor of resolveCollision for a logged contact
BounceFactorOf(c) ==
    LET other == hist.pre[c.other]
    IN  Min(c.before.physics.bounceCoefficient,
            IF Has(other, "Surface") THEN other.surface.bounciness
            ELSE c.before.physics.bounceCoefficient)

\* the marble's velocity along the normal, relative to the other object, after
\* the contact was resolved
OutgoingSpeed(c) == ApproachDot(c.after, hist.pre[c.other], c.collision.normal)

\* the outgoing speed is bounceFactor times the approach speed (to 0.0005)
Restituted(c) ==
    /\ OutgoingSpeed(c) >= 0
    /\ Abs(OutgoingSpeed(c) - Mul(BounceFactorOf(c), -c.dot)) <= 5

\* the friction of a floor-like contact scales components of the velocity that
\* lie along the normal
FrictionAlongNormal(c) ==
    /\ c.collision.normal.y > FloorNormalY
    /\ (c.collision.normal.x /= 0 \/ c.collision.normal.z /= 0)

\* C24 as stated: after every resolved contact the marble's velocity along the
\* normal, relative to the other object, points away from it and equals
\* bounceFactor times the approach speed.
C24_RestitutionAlways ==
    hist.pass = "Collision" =>
        \A k \in ResolvedContacts : Restituted(hist.contacts[k])

\* C24: after a resolved contact the marble's velocity along the normal,
\* relative to the other object, points away from it and equals bounceFactor
\* times the approach speed, unless the contact is floor-like with a normal
\* that is not vertical, where the surface friction then scales x and z.
C24_Restitution ==
    hist.pass = "Collision" =>
        \A k \in ResolvedContacts :
            ~FrictionAlongNormal(hist.contacts[k]) => Restituted(hist.contacts[k])

\* the marble ran into the static sphere ahead of it and bounced back
C24_Witness ==
    /\ hist.pass = "Collision"
    /\ \E k \in ResolvedContacts :
          /\ hist.contacts[k].collision.normal.y <= FloorNormalY
          /\ hist.contacts[k].collision.normal.x < 0
          /\ hist.contacts[k].before.physics.velocity.x > 0
          /\ hist.contacts[k].after.physics.velocity.x < 0

---------------------------------------------------------------------------
(* The integrator: gravity, friction, cooldown *)

\* the non-static objects without a Jump component that are not on the ground
FreeFallers ==
    {i \in Integrated : ~Has(hist.pre[i], "Jump") /\ ~hist.pre[i].physics.isOnGround}

\* C25: for a non-static object without a Jump component and with
\* isOnGround = false every integrator call decreases velocity.y by exactly its
\* gravity, with no terminal velocity.
C25_GravityEveryTick ==
    hist.pass = "Physics" =>
        \A i \in FreeFallers :
            entities[i].physics.velocity.y =
                hist.pre[i].physics.velocity.y - hist.pre[i].physics.gravity

\* an obstacle has fallen for more than ten ticks and still accelerates
C25_Witness ==
    /\ hist.pass = "Physics"
    /\ \E i \in FreeFallers :
          /\ entities[i].physics.gravity > 0
          /\ hist.pre[i].physics.velocity.y <= -10 * entities[i].physics.gravity
          /\ entities[i].physics.velocity.y < hist.pre[i].physics.velocity.y

\* The game with a movement key: the marble on the ground, at rest or rolling,
\* and the player holds or releases d (move right) and space
SteerKeys == {"d", " "}

InitSteer ==
    \E v \in {Zero3, Vec(1500, 0, 0)} :
        InitWith(<< Marble(Vec(0, MARBLE_RADIUS, 0), v, GRAVITY), MainPlatform,
                    SphereObstacle(Vec(20000, 8000, 0), MARBLE_RADIUS, TRUE) >>,
                 GameSystems)

NextSteer ==
    \/ Animate
    \/ \E k \in SteerKeys : KeyDown(k)
    \/ \E k \in SteerKeys : KeyUp(k)
    \/ InputSystemUpdate
    \/ JumpSystemUpdate
    \/ PhysicsSystemUpdate
    \/ CollisionSystemUpdate

SpecSteer == InitSteer /\ [][NextSteer]_vars

\* the objects on the ground that the integrator moves, with a ground friction
\* in (0, 1]
GroundedMovers ==
    {i \in Integrated :
        /\ hist.pre[i].physics.isOnGround
        /\ hist.pre[i].physics.friction > 0
        /\ hist.pre[i].physics.friction <= Scale}

\* |velocity.x| and |velocity.z| of object i did not grow in the last pass
NotFaster(i) ==
    /\ Abs(entities[i].physics.velocity.x) <= Abs(hist.pre[i].physics.velocity.x)
    /\ Abs(entities[i].physics.velocity.z) <= Abs(hist.pre[i].physics.velocity.z)

\* processPlayerMovement adds nothing to the velocity of object i
NoMovementInput(i) ==
    \/ ~Has(hist.pre[i], "PlayerControl")
    \/ /\ hist.pre[i].control.moveDirection.x = 0
       /\ hist.pre[i].control.moveDirection.z = 0

\* C26 as stated: for any object with isOnGround = true and ground friction in
\* (0, 1], |velocity.x| and |velocity.z| after the integrator call are no larger
\* than before it.
C26_FrictionBoundAlways ==
    hist.pass = "Physics" => \A i \in GroundedMovers : NotFaster(i)

\* C26: for any object with isOnGround = true and ground friction in (0, 1] that
\* gets no movement input, |velocity.x| and |velocity.z| after the integrator
\* call are no larger than before it.
C26_FrictionBound ==
    hist.pass = "Physics" =>
        \A i \in GroundedMovers : NoMovementInput(i) => NotFaster(i)

\* the marble rolls on the ground without input and has slowed down
C26_Witness ==
    /\ hist.pass = "Physics"
    /\ MarbleId \in GroundedMovers
    /\ NoMovementInput(MarbleId)
    /\ MarbleBefore.physics.velocity.x > 0
    /\ TheMarble.physics.velocity.x < MarbleBefore.physics.velocity.x

---------------------------------------------------------------------------
(* The Jump component called directly.  The repository holds two modules of
   the component: components/Jump.ts, which components/index.ts and the unit
   tests load, and components/Jump.js, which components/index.js exports. *)

\* Jump.js executeJumpIfRequested: guarded by jumpRequested alone
ExecuteJumpIfRequestedJs(j) ==
    IF j.jumpRequested
    THEN [jump |-> [j EXCEPT !.isJumping = TRUE, !.isOnSurface = FALSE,
                             !.jumpRequested = FALSE,
                             !.jumpCooldown = j.jumpCooldownTime],
          executed |-> TRUE]
    ELSE [jump |-> j, executed |-> FALSE]

\* Jump.js updateCooldown: subtracts deltaTime while the cooldown is positive
UpdateCooldownJs(j, deltaTime) ==
    IF j.jumpCooldown > 0
    THEN [j EXCEPT !.jumpCooldown = j.jumpCooldown - deltaTime]
    ELSE j

JumpModules == <<"Jump.ts", "Jump.js">>

\* the module of the component the build loads; this specification keeps it in
\* the one slot of systems, and no system pass runs
JumpModule == systems[1]

ExecuteJumpOf(module, j) ==
    IF module = "Jump.js" THEN ExecuteJumpIfRequestedJs(j)
    ELSE ExecuteJumpIfRequested(j)

UpdateCooldownOf(module, j, deltaTime) ==
    IF module = "Jump.js" THEN UpdateCooldownJs(j, deltaTime)
    ELSE UpdateCooldown(j, deltaTime)

\* cooldowns the unit tests assign: 0.05 and 0.1
TestCooldowns == {500, 1000}

\* new Jump() on the marble, under either module
InitJumpCalls ==
    \E m \in 1..Len(JumpModules) :
        InitWith(<< Marble(Vec(0, MARBLE_RADIUS, 0), Zero3, GRAVITY) >>,
                 << JumpModules[m] >>)

\* hist after a direct call of a method of the marble's Jump
Called(name, executed) ==
    [hist EXCEPT !.pass = name, !.pre = entities, !.launched = executed]

\* jump.requestJump()
CallRequestJump ==
    /\ entities' = [entities EXCEPT ![MarbleId].jump = RequestJump(@)]
    /\ hist' = Called("requestJump", FALSE)
    /\ UNCHANGED <<systems, pc, dt, keys, tick, keyEvents>>

\* jump.executeJumpIfRequested()
CallExecuteJumpIfRequested ==
    LET r == ExecuteJumpOf(JumpModule, entities[MarbleId].jump)
    IN  /\ entities' = [entities EXCEPT ![MarbleId].jump = r.jump]
        /\ hist' = Called("executeJumpIfRequested", r.executed)
        /\ UNCHANGED <<systems, pc, dt, keys, tick, keyEvents>>

\* jump.updateCooldown(deltaTime)
CallUpdateCooldown ==
    \E d \in DeltaTimes :
        /\ entities' = [entities EXCEPT
                           ![MarbleId].jump = UpdateCooldownOf(JumpModule, @, d)]
        /\ dt' = d
        /\ hist' = Called("updateCooldown", FALSE)
        /\ UNCHANGED <<systems, pc, keys, tick, keyEvents>>

\* jump.isOnSurface = b, as the collision pass and the tests assign it
SetOnSurface ==
    \E b \in BOOLEAN :
        /\ entities' = [entities EXCEPT ![MarbleId].jump.isOnSurface = b]
        /\ hist' = Called("isOnSurface", FALSE)
        /\ UNCHANGED <<systems, pc, dt, keys, tick, keyEvents>>

\* jump.jumpCooldown = c, as the tests assign it
SetCooldown ==
    \E c \in TestCooldowns :
        /\ entities' = [entities EXCEPT ![MarbleId].jump.jumpCooldown = c]
        /\ hist' = Called("jumpCooldown", FALSE)
        /\ UNCHANGED <<systems, pc, dt, keys, tick, keyEvents>>

NextJumpCalls ==
    \/ CallRequestJump
    \/ CallExecuteJumpIfRequested
    \/ CallUpdateCooldown
    \/ SetOnSurface
    \/ SetCooldown

SpecJumpCalls == InitJumpCalls /\ [][NextJumpCalls]_vars

\* C27: jumpCooldown is never negative and never above jumpCooldownTime:
\* 0 <= jumpCooldown <= jumpCooldownTime in every reachable state, for every
\* deltaTime >= 0 passed to updateCooldown.
C27_CooldownInRange ==
    \A i \in DOMAIN entities :
        Has(entities[i], "Jump") =>
            /\ entities[i].jump.jumpCooldown >= 0
            /\ entities[i].jump.jumpCooldown <= entities[i].jump.jumpCooldownTime

\* the call of executeJumpIfRequested found a pending request and was either
\* off the surface or cooling down
BlockedRequest ==
    /\ hist.pass = "executeJumpIfRequested"
    /\ MarbleBefore.jump.jumpRequested
    /\ (~MarbleBefore.jump.isOnSurface \/ MarbleBefore.jump.jumpCooldown > 0)

\* C29: executeJumpIfRequested called with a pending request while isOnSurface
\* is false or jumpCooldown > 0 returns false and changes nothing: isJumping
\* stays false, the cooldown is untouched and jumpRequested stays true.
C29_BlockedRequestChangesNothing ==
    BlockedRequest =>
        /\ ~hist.launched
        /\ TheMarble.jump = MarbleBefore.jump
        /\ TheMarble.jump.jumpRequested

---------------------------------------------------------------------------
(* Configurations handed to the constructors *)

\* radii handed to createSphereObstacle: the marble's radius and its negative
ObstacleRadii == {MARBLE_RADIUS, -MARBLE_RADIUS}

\* the marble, the main platform and a static sphere obstacle at (2, 0.8, 0)
\* built with either radius.  new Collider('sphere', { radius }) and
\* new Physics(mass, gravity) store what they are given.
InitConfigured ==
    \E r \in ObstacleRadii, s \in Starts, g \in Gravities :
        InitWith(<< Marble(s.position, s.velocity, g),
                    MainPlatform,
                    SphereObstacle(Vec(20000, 8000, 0), r, TRUE) >>,
                 GameSystems)

SpecConfigured == InitConfigured /\ [][Next]_vars

\* no negative radius on a sphere collider, no zero friction on a body
ValidConfiguration(e) ==
    /\ (Has(e, "Collider") /\ e.collider.type = "sphere") => e.collider.radius >= 0
    /\ Has(e, "Physics") => e.physics.friction # 0

\* C28: an invalid configuration (a negative radius, a zero friction) is rejected
\* when the object is constructed, so no tick ever runs with an object carrying
\* such values.
C28_InvalidConfigurationRejected ==
    tick > 0 => \A i \in DOMAIN entities : ValidConfiguration(entities[i])

---------------------------------------------------------------------------
(* The landing transition of JumpSystem.update *)

\* objects the jump-transition pass found in the air state on a surface
Landers ==
    { i \in DOMAIN hist.pre :
        /\ {"Transform", "Physics", "Jump"} \subseteq hist.pre[i].has
        /\ hist.pre[i].jump.isJumping \/ hist.pre[i].jump.isFalling
        /\ hist.pre[i].jump.isOnSurface }

\* C30: if the jump-transition pass finds an object with (isJumping or
\* isFalling) and isOnSurface, it clears both isJumping and isFalling and sets
\* velocity.y to 0.
C30_LandingClearsAirState ==
    hist.pass = "Jump" =>
        \A i \in Landers :
            /\ ~entities[i].jump.isJumping
            /\ ~entities[i].jump.isFalling
            /\ entities[i].physics.velocity.y = 0

\* the pass found the marble jumping on a surface with a vertical velocity
C30_Witness ==
    /\ hist.pass = "Jump"
    /\ MarbleId \in Landers
    /\ MarbleBefore.jump.isJumping
    /\ MarbleBefore.physics.velocity.y # 0
    /\ ~TheMarble.jump.isJumping
    /\ TheMarble.physics.velocity.y = 0

---------------------------------------------------------------------------
(* The walk-off and apex transitions *)

\* objects JumpSystem.update processes
JumpSystemEntities ==
    { i \in DOMAIN entities : {"Transform", "Physics", "Jump"} \subseteq entities[i].has }

\* C31: if the jump-transition pass finds an object with isOnSurface = false,
\* isJumping = false and isFalling = false, it sets isFalling = true, so after
\* every jump-transition pass an object that is not on a surface is either
\* jumping or falling.
C31_OffSurfaceJumpingOrFalling ==
    hist.pass = "Jump" =>
        \A i \in JumpSystemEntities :
            /\ ~entities[i].jump.isOnSurface =>
                   (entities[i].jump.isJumping \/ entities[i].jump.isFalling)
            /\ (/\ ~hist.pre[i].jump.isOnSurface
                /\ ~hist.pre[i].jump.isJumping
                /\ ~hist.pre[i].jump.isFalling) => entities[i].jump.isFalling

\* the pass found the marble off any surface, neither jumping nor falling
C31_Witness ==
    /\ hist.pass = "Jump"
    /\ ~MarbleBefore.jump.isOnSurface
    /\ ~MarbleBefore.jump.isJumping
    /\ ~MarbleBefore.jump.isFalling
    /\ TheMarble.jump.isFalling

\* C32: after every integrator call and after every jump-transition pass, an
\* object with isJumping = true has velocity.y >= 0; a jumping object whose
\* velocity.y has become negative is switched to isJumping = false,
\* isFalling = true within that same pass.
C32_JumpingNeverDescends ==
    hist.pass \in {"Physics", "Jump"} =>
        \A i \in Jumpers :
            entities[i].jump.isJumping => entities[i].physics.velocity.y >= 0

\* the integrator took the jumping marble's velocity.y below zero and switched
\* it to falling
C32_Witness ==
    /\ hist.pass = "Physics"
    /\ MarbleBefore.jump.isJumping
    /\ MarbleBefore.physics.velocity.y >= 0
    /\ TheMarble.physics.velocity.y < 0
    /\ ~TheMarble.jump.isJumping
    /\ TheMarble.jump.isFalling

---------------------------------------------------------------------------
(* Position integration and the movement increment *)

\* objects the integrator moved in the pass just run
Movers ==
    { i \in DOMAIN hist.pre :
        /\ {"Transform", "Physics"} \subseteq hist.pre[i].has
        /\ ~hist.pre[i].physics.isStatic }

\* the launch nudge object i received in the pass just run
NudgeOf(i) == IF i = MarbleId /\ hist.launched THEN JumpLaunchNudge ELSE 0

\* the friction factor the integrator applied to object i
FrictionOf(i) ==
    IF hist.pre[i].physics.isOnGround THEN hist.pre[i].physics.friction
    ELSE hist.pre[i].physics.airFriction

\* the displacement of object i in the pass just run
Displacement(i) ==
    VSub(entities[i].transform.position, hist.pre[i].transform.position)

\* the displacement is the velocity the integrator computed, before friction, and
\* the launch nudge; the frame time is no part of it
EulerStep(i) ==
    /\ Displacement(i).y = entities[i].physics.velocity.y + NudgeOf(i)
    /\ Mul(Displacement(i).x, FrictionOf(i)) = entities[i].physics.velocity.x
    /\ Mul(Displacement(i).z, FrictionOf(i)) = entities[i].physics.velocity.z

\* C33: position integration is one explicit-Euler step per tick that does not
\* depend on dt: after an integrator call the position of a non-static object is
\* its position at the start of the call plus its updated velocity (plus the
\* 0.05 launch nudge if a jump launched), for every value of dt.
C33_EulerStepIgnoresDt ==
    hist.pass = "Physics" => \A i \in Movers : EulerStep(i)

\* a 100 ms frame in which the marble launched and moved sideways
C33_Witness ==
    /\ hist.pass = "Physics"
    /\ dt = 1000
    /\ hist.launched
    /\ Displacement(MarbleId).x # 0
    /\ Displacement(MarbleId).y = JUMP_POWER - TheMarble.physics.gravity + JumpLaunchNudge

\* objects the integrator steered in the pass just run
Steered == { i \in Movers : Has(hist.pre[i], "PlayerControl") }

\* what the pass added to the horizontal velocity of object i before it moved it
MovementIncrement(i) ==
    [x |-> Displacement(i).x - hist.pre[i].physics.velocity.x,
     z |-> Displacement(i).z - hist.pre[i].physics.velocity.z]

\* direction * speed
GroundedIncrement(i) ==
    [x |-> Mul(hist.pre[i].control.moveDirection.x, hist.pre[i].control.speed),
     z |-> Mul(hist.pre[i].control.moveDirection.z, hist.pre[i].control.speed)]

\* direction * speed * airControlFactor
AirborneIncrement(i) ==
    LET speed == Mul(hist.pre[i].control.speed, hist.pre[i].control.airControlFactor)
    IN  [x |-> Mul(hist.pre[i].control.moveDirection.x, speed),
         z |-> Mul(hist.pre[i].control.moveDirection.z, speed)]

\* C34: the movement-intent increment added to velocity.x / velocity.z in an
\* integrator call is direction * speed when the object is grounded and
\* direction * speed * airControlFactor when it is airborne, so with the same
\* intent the airborne increment is airControlFactor times the grounded one.
C34_AirControlFactor ==
    hist.pass = "Physics" =>
        \A i \in Steered :
            /\ MovementIncrement(i) =
                   IF hist.pre[i].physics.isOnGround THEN GroundedIncrement(i)
                   ELSE AirborneIncrement(i)
            /\ AirborneIncrement(i).x =
                   Mul(GroundedIncrement(i).x, hist.pre[i].control.airControlFactor)
            /\ AirborneIncrement(i).z =
                   Mul(GroundedIncrement(i).z, hist.pre[i].control.airControlFactor)

\* the marble is steered to the right while in the air
C34_Witness ==
    /\ hist.pass = "Physics"
    /\ MarbleId \in Steered
    /\ ~MarbleBefore.physics.isOnGround
    /\ MarbleBefore.control.moveDirection.x = Scale
    /\ MovementIncrement(MarbleId).x = Mul(MARBLE_SPEED, AIR_CONTROL_FACTOR)
    /\ MovementIncrement(MarbleId).x < MARBLE_SPEED

---------------------------------------------------------------------------
(* Colliders constructed with a third argument *)

\* new Collider(type, params, isTrigger): the constructor declares two
\* parameters, so a third argument is dropped
ColliderWithTrigger(type, radius, width, height, depth, isTrigger) ==
    Collider(type, radius, width, height, depth)

\* a zone as the collision test builds it:
\* new Collider('sphere', { radius }, true) on an entity with a Transform
ArgumentTriggerZone(position, radius) ==
    Entity({"Transform", "Collider"},
           Transform(position), Physics(0, 0),
           ColliderWithTrigger("sphere", radius, 0, 0, 0, TRUE),
           Surface(GROUND_FRICTION), Jump(JUMP_POWER))

\* the third constructor argument of each collider of the world below:
\* the marble and the platform are built without one, the zone with true
TriggerArguments == <<FALSE, FALSE, TRUE>>

\* the marble, the main platform and a zone of radius 1 at (0, 1, 0)
InitTriggerArgument ==
    \E s \in Starts, g \in Gravities :
        InitWith(<< Marble(s.position, s.velocity, g),
                    MainPlatform,
                    ArgumentTriggerZone(Vec(0, 10000, 0), 10000) >>,
                 GameSystems)

SpecTriggerArgument == InitTriggerArgument /\ [][Next]_vars

\* C35: a collider constructed with its third (trigger) argument set to true has
\* isTrigger = true, and one constructed without it has isTrigger = false.
C35_TriggerArgumentSetsFlag ==
    \A i \in DOMAIN entities :
        Has(entities[i], "Collider") =>
            entities[i].collider.isTrigger = TriggerArguments[i]

---------------------------------------------------------------------------
(* The two ground flags and the frame of the resolver *)

\* marbles that carry a Jump component
JumpingMarbles ==
    { i \in DOMAIN entities : IsMarble(entities[i]) /\ Has(entities[i], "Jump") }

\* C36: at the end of every resolver pass, for a marble that has a Jump
\* component, isOnGround equals isOnSurface.
C36_GroundFlagsAgree ==
    hist.pass = "Collision" =>
        \A i \in JumpingMarbles :
            entities[i].physics.isOnGround = entities[i].jump.isOnSurface

\* the pass found the two flags of the marble different and left both set
C36_Witness ==
    /\ hist.pass = "Collision"
    /\ MarbleId \in JumpingMarbles
    /\ MarbleBefore.physics.isOnGround # MarbleBefore.jump.isOnSurface
    /\ TheMarble.physics.isOnGround
    /\ TheMarble.jump.isOnSurface

\* objects that are not marbles
Others == { i \in DOMAIN hist.pre : ~IsMarble(hist.pre[i]) }

\* C37: the resolver mutates only the marble: the position, velocity and flags
\* of every other object, static or dynamic, are the same after a resolver pass
\* as before it, also when the marble collided with that object.
C37_ResolverMovesOnlyMarble ==
    hist.pass = "Collision" => \A i \in Others : entities[i] = hist.pre[i]

\* the marble hit a dynamic object and the contact changed the marble's velocity
C37_Witness ==
    /\ hist.pass = "Collision"
    /\ \E k \in DOMAIN hist.contacts :
          LET c == hist.contacts[k]
          IN  /\ c.other \in Others
              /\ ~entities[c.other].physics.isStatic
              /\ Has(entities[c.other], "Physics")
              /\ c.after.physics.velocity # c.before.physics.velocity
              /\ entities[c.other] = hist.pre[c.other]

---------------------------------------------------------------------------
(* Jump requests in the game's pipeline *)

\* C38: in the game's pipeline (input, jump-transition, integrator, resolver) a
\* jump request accepted by requestJump is always consumed by the integrator of
\* the same tick, so jumpRequested is false at the end of every tick and no
\* request is carried over to a later tick.
C38_RequestConsumedSameTick ==
    /\ FrameEnded => \A i \in Jumpers : ~entities[i].jump.jumpRequested
    /\ hist.pass = "Physics" =>
           \A i \in Jumpers :
               hist.pre[i].jump.jumpRequested =>
                   /\ ~entities[i].jump.jumpRequested
                   /\ i = MarbleId => hist.launched

\* a tick has ended in which the input pass accepted a request and the
\* integrator consumed it
C38_Witness ==
    /\ FrameEnded
    /\ hist.ran = GameSystems
    /\ hist.sinceLaunch = 0
    /\ " " \in keys
    /\ ~TheMarble.jump.jumpRequested

---------------------------------------------------------------------------
(* The marble over the main ground alone *)

\* where the marble is dropped from: on the ground or above it, at the centre or
\* near the +x edge of the platform; and how fast it moves down and sideways
DropHeights == {MARBLE_RADIUS, 15000, 100000}
DropOffsets == {0, PLATFORM_SIZE - 2000}
DropSpeeds == {0, 3000, 20000, 150000}
SideSpeeds == {0, 1500}

\* the keys of this world: a (move left) and space
DropKeys == {"a", " "}

\* the marble and the main platform, nothing else
InitDrop ==
    \E h \in DropHeights, x \in DropOffsets, v \in DropSpeeds, s \in SideSpeeds :
        InitWith(<< Marble(Vec(x, h, 0), Vec(s, -v, 0), GRAVITY), MainPlatform >>,
                 GameSystems)

NextDrop ==
    \/ Animate
    \/ \E k \in DropKeys : KeyDown(k)
    \/ \E k \in DropKeys : KeyUp(k)
    \/ InputSystemUpdate
    \/ JumpSystemUpdate
    \/ PhysicsSystemUpdate
    \/ CollisionSystemUpdate

SpecDrop == InitDrop /\ [][NextDrop]_vars

\* C39: with the main ground as the only contact, a marble that starts at or
\* above ground level and is horizontally inside the platform extent never ends
\* a tick below the ground: position.y >= marbleRadius at the end of every
\* resolver pass, however large its downward velocity was.
C39_NeverBelowGround ==
    (hist.pass = "Collision" /\ WithinPlatform(TheMarble)) =>
        TheMarble.transform.position.y >= MARBLE_RADIUS

\* the integrator had taken the marble more than a diameter below the ground
\* level and the resolver put it back on the ground
C39_Witness ==
    /\ hist.pass = "Collision"
    /\ WithinPlatform(MarbleBefore)
    /\ MarbleBefore.transform.position.y < -MARBLE_RADIUS
    /\ TheMarble.transform.position.y >= MARBLE_RADIUS

=============================================================================
